---------------------------- MODULE Spec2Model ----------------------------
(***************************************************************************)
(* promql-cardinality: a cardinality index over label matchers.            *)
(*                                                                         *)
(* BitmapIndex keeps, per label name and label value, the set of series    *)
(* references carrying that pair; HyperMinHashIndex keeps a sketch of the  *)
(* series' identity hashes instead.  Both answer GetCardinality for a      *)
(* conjunction of matchers.  The store (Prometheus' head block, reached    *)
(* through teststorage) is the ground truth of the tests.                  *)
(***************************************************************************)
EXTENDS Integers, Sequences, FiniteSets, TLC

VARIABLES
    bitmapIndex,   \* BitmapIndex.index: name -> value -> set of references
    hmhIndex,      \* HyperMinHashIndex.index: name -> value -> sketch
    stringPool,    \* the process-wide stringPool map: string -> pooled string
    store,         \* the store's series: store[ref] is the label set of ref
    calls,         \* the AddSeries calls made so far (labels and reference)
    pending,       \* ingestData's position: families to do, the one in hand, its next series
    last,          \* the last operation called and what it returned
    instances,     \* further index instances: variant and address of the index map
    heap           \* the maps, bitmaps and sketches of those instances, by address

vars == <<bitmapIndex, hmhIndex, stringPool, store, calls, pending, last,
          instances, heap>>

-----------------------------------------------------------------------------
(* Bounds of the model.                                                    *)

\* AddSeries calls in one behaviour
MaxCalls == 2
\* series references are 1..MaxRef
MaxRef == 2
\* matchers in one GetCardinality call
MaxMatchers == 2
\* registers of a sketch (the library has 2^14)
NumRegisters == 2
\* bits of a hash left of the register index, which give the rank
RankBits == 2
\* matchers in one query put to the estimators
MaxEstimatorMatchers == 3
\* the metric families of the tests, scaled down: the tests have 5 methods,
\* 1000 pods, 1000 ingesters, 100 users, 1000 blocks, 100 instances and 10
\* users of blocks
NumMethods == 2
NumPods == 105
NumIngesters == 2
NumUsers == 2
NumBlocks == 3
NumInstances == 2
NumBlockUsers == 2

-----------------------------------------------------------------------------
(* Labels and matchers (prometheus/model/labels).                          *)

MatchEqual     == "MatchEqual"
MatchNotEqual  == "MatchNotEqual"
MatchRegexp    == "MatchRegexp"
MatchNotRegexp == "MatchNotRegexp"
\* a MatchType value outside the enumeration
MatchInvalid   == "MatchInvalid"

MatchTypes == {MatchEqual, MatchNotEqual, MatchRegexp, MatchNotRegexp}

Label(n, v) == [Name |-> n, Value |-> v]

Matcher(t, n, v) == [Type |-> t, Name |-> n, Value |-> v]

\* labels.Labels.Get: the value of label n, "" when the series has none
LabelsGet(lbls, n) ==
    IF \E i \in DOMAIN lbls : lbls[i].Name = n
    THEN lbls[CHOOSE i \in DOMAIN lbls : lbls[i].Name = n].Value
    ELSE ""

DigitChar == <<"0", "1", "2", "3", "4", "5", "6", "7", "8", "9">>

\* mutant: the number is padded with zeros to three digits
ItoaPadded(i) ==
    DigitChar[((i \div 100) % 10) + 1] \o DigitChar[((i \div 10) % 10) + 1]
        \o DigitChar[(i % 10) + 1]

\* fmt's %d of a non-negative integer
RECURSIVE Itoa(_)
Itoa(i) ==
    IF i < 10 THEN DigitChar[i + 1]
    ELSE Itoa(i \div 10) \o DigitChar[(i % 10) + 1]

\* the strings [0-9]{n}
RECURSIVE DigitStrings(_)
DigitStrings(n) ==
    IF n = 0 THEN {""}
    ELSE {s \o DigitChar[d] : s \in DigitStrings(n - 1), d \in 1..10}

PodOneDigit    == {"pod-" \o s : s \in DigitStrings(1)}
PodThreeDigits == {"pod-" \o s : s \in DigitStrings(3)}

\* A compiled regular expression is the language it denotes: the strings of
\* a finite language, or "any string of at least min characters".
Lang(S)  == [op |-> "lang", lang |-> S, min |-> 0]
AnyOf(k) == [op |-> "any", lang |-> {}, min |-> k]

\* labels.NewFastRegexMatcher, for the patterns in use; a pattern is
\* anchored at both ends
Compile(pattern) ==
    CASE pattern = ".*" -> AnyOf(0)
      [] pattern = ".+" -> AnyOf(1)
      [] pattern = "a|b" -> Lang({"a", "b"})
      [] pattern = "http_request_total|ingester_active_series" ->
            Lang({"http_request_total", "ingester_active_series"})
      [] pattern = "GET|POST|PUT|PATCH|DELETE" ->
            Lang({"GET", "POST", "PUT", "PATCH", "DELETE"})
      [] pattern = "GET|POST" -> Lang({"GET", "POST"})
      [] pattern = "pod-[0-9]" -> Lang(PodOneDigit)
      [] pattern = "pod-([0-9])" -> Lang(PodOneDigit)
      [] pattern = "pod-[0-9]{3}" -> Lang(PodThreeDigits)
      [] pattern = "pod-([0-9][0-9][0-9])" -> Lang(PodThreeDigits)
      [] OTHER -> Lang({pattern})

MatchString(re, s) ==
    IF re.op = "any" THEN Len(s) >= re.min ELSE s \in re.lang

\* labels.Matcher.Matches; it panics on a type outside the enumeration
Matches(m, s) ==
    CASE m.Type = MatchEqual     -> s = m.Value
      [] m.Type = MatchNotEqual  -> s # m.Value
      [] m.Type = MatchRegexp    -> MatchString(Compile(m.Value), s)
      [] m.Type = MatchNotRegexp -> ~MatchString(Compile(m.Value), s)

-----------------------------------------------------------------------------
(* Maps.                                                                   *)

EmptyMap == <<>>

MapPut(map, k, v) ==
    [x \in (DOMAIN map) \cup {k} |-> IF x = k THEN v ELSE map[x]]

-----------------------------------------------------------------------------
(* The string pool.                                                        *)

\* internString: the pool after interning s
internString(pool, s) == IF s \in DOMAIN pool THEN pool ELSE MapPut(pool, s, s)

\* internString: the string returned, given the pool after the call
Pooled(pool, s) == pool[s]

RECURSIVE InternLabels(_, _)
InternLabels(pool, lbls) ==
    IF lbls = <<>> THEN pool
    ELSE InternLabels(internString(internString(pool, Head(lbls).Name),
                                   Head(lbls).Value),
                      Tail(lbls))

-----------------------------------------------------------------------------
(* roaring64.Bitmap: a set of 64-bit references.                           *)

NewBitmap == {}

\* mutant: the reference is toggled instead of added
BitmapAddFlip(bitmap, ref) ==
    IF ref \in bitmap THEN bitmap \ {ref} ELSE bitmap \cup {ref}

BitmapAdd(bitmap, ref) == bitmap \cup {ref}

BitmapOr(x, y) == x \cup y

\* mutant: the matchers' bitmaps are united instead of intersected
BitmapAndAsOr(x, y) == x \cup y

BitmapAnd(x, y) == x \cap y

-----------------------------------------------------------------------------
(* BitmapIndex.                                                            *)

NewBitmapIndex == EmptyMap

\* mutant: the value map of the name is made anew at every label
BitmapAddLabelNewValueMap(index, l, ref) ==
    MapPut(index, l.Name, MapPut(EmptyMap, l.Value, BitmapAdd(NewBitmap, ref)))

\* one iteration of the loop of BitmapIndex.AddSeries
BitmapAddLabel(index, l, ref) ==
    LET valueMap == IF l.Name \in DOMAIN index THEN index[l.Name] ELSE EmptyMap
        bitmap   == IF l.Value \in DOMAIN valueMap THEN valueMap[l.Value]
                    ELSE NewBitmap
    IN  MapPut(index, l.Name, MapPut(valueMap, l.Value, BitmapAdd(bitmap, ref)))

RECURSIVE BitmapAddSeries(_, _, _)
BitmapAddSeries(index, lbls, ref) ==
    IF lbls = <<>> THEN index
    ELSE BitmapAddSeries(BitmapAddLabel(index, Head(lbls), ref), Tail(lbls), ref)

\* the values of valueMap a matcher selects; a type outside the enumeration
\* falls through the switch and selects nothing
SelectedValues(valueMap, matcher) ==
    CASE matcher.Type = MatchEqual ->
            {v \in DOMAIN valueMap : v = matcher.Value}
      [] matcher.Type = MatchRegexp ->
            {v \in DOMAIN valueMap : Matches(matcher, v)}
      [] matcher.Type = MatchNotEqual ->
            {v \in DOMAIN valueMap : v # matcher.Value}
      [] matcher.Type = MatchNotRegexp ->
            {v \in DOMAIN valueMap : ~Matches(matcher, v)}
      [] OTHER -> {}

\* unionBitmap after the Or of each of the bitmaps into it
OrAll(unionBitmap, bitmaps) == BitmapOr(unionBitmap, UNION bitmaps)

\* mutant: a label name the index never saw is read as the empty value, so
\* a matcher that matches "" selects every reference
getUnionBitmapEmptyValue(index, matcher) ==
    IF matcher.Name \in DOMAIN index
    THEN LET valueMap == index[matcher.Name]
         IN  OrAll(NewBitmap,
                   {valueMap[v] : v \in SelectedValues(valueMap, matcher)})
    ELSE IF matcher.Type \in MatchTypes /\ Matches(matcher, "")
         THEN UNION {UNION {index[n][v] : v \in DOMAIN index[n]} : n \in DOMAIN index}
         ELSE NewBitmap

getUnionBitmapForMatcher(index, matcher) ==
    IF matcher.Name \in DOMAIN index
    THEN LET valueMap == index[matcher.Name]
         IN  OrAll(NewBitmap,
                   {valueMap[v] : v \in SelectedValues(valueMap, matcher)})
    ELSE NewBitmap

\* the loop of BitmapIndex.GetCardinality over matchers[1:]
RECURSIVE BitmapIntersect(_, _, _)
BitmapIntersect(index, intersectionBitmap, matchers) ==
    IF matchers = <<>> THEN Cardinality(intersectionBitmap)
    ELSE LET matcherBitmap == getUnionBitmapForMatcher(index, Head(matchers))
             anded == BitmapAnd(intersectionBitmap, matcherBitmap)
         IN  IF anded = {} THEN 0
             ELSE BitmapIntersect(index, anded, Tail(matchers))

\* mutant: no matcher is read as "match all"
BitmapGetCardinalityMatchAll(index, matchers) ==
    IF Len(matchers) = 0
    THEN Cardinality(UNION {UNION {index[n][v] : v \in DOMAIN index[n]}
                            : n \in DOMAIN index})
    ELSE BitmapIntersect(index, getUnionBitmapForMatcher(index, Head(matchers)),
                         Tail(matchers))

BitmapGetCardinality(index, matchers) ==
    IF Len(matchers) = 0 THEN 0
    ELSE BitmapIntersect(index, getUnionBitmapForMatcher(index, Head(matchers)),
                         Tail(matchers))

\* Who holds a bitmap: the caller alone, or the index under a label pair.
Fresh == [stored |-> FALSE, name |-> "", value |-> ""]

StoredAt(n, v) == [stored |-> TRUE, name |-> n, value |-> v]

\* mutant: for an Equal matcher the bitmap stored under the pair is
\* returned itself, not its union into a new bitmap
UnionBitmapHolderShared(index, matcher) ==
    IF /\ matcher.Type = MatchEqual
       /\ matcher.Name \in DOMAIN index
       /\ matcher.Value \in DOMAIN index[matcher.Name]
    THEN StoredAt(matcher.Name, matcher.Value)
    ELSE Fresh

\* the holder of the bitmap getUnionBitmapForMatcher returns: the bitmap is
\* made by roaring64.NewBitmap in the call and the stored ones are only
\* arguments of Or
UnionBitmapHolder(index, matcher) == Fresh

\* intersectionBitmap when the loop of GetCardinality ends: And works in
\* place on it
RECURSIVE IntersectionBitmapAfter(_, _, _)
IntersectionBitmapAfter(index, intersectionBitmap, matchers) ==
    IF matchers = <<>> THEN intersectionBitmap
    ELSE LET matcherBitmap == getUnionBitmapForMatcher(index, Head(matchers))
             anded == BitmapAnd(intersectionBitmap, matcherBitmap)
         IN  IF anded = {} THEN anded
             ELSE IntersectionBitmapAfter(index, anded, Tail(matchers))

\* the index when GetCardinality returns: what And wrote goes to the holder
\* of intersectionBitmap
BitmapIndexAfter(index, matchers) ==
    IF Len(matchers) = 0 THEN index
    ELSE LET holder == UnionBitmapHolder(index, Head(matchers))
         IN  IF holder.stored
             THEN MapPut(index, holder.name,
                     MapPut(index[holder.name], holder.value,
                        IntersectionBitmapAfter(index,
                            getUnionBitmapForMatcher(index, Head(matchers)),
                            Tail(matchers))))
             ELSE index

-----------------------------------------------------------------------------
(* hyperminhash.Sketch, scaled down: NumRegisters registers, each keeping  *)
(* the greatest rank seen among the elements that fall into it.  A rank is *)
(* 1 + the leading zeros of the element's RankBits bits; the signature     *)
(* bits of the library's registers are left out.                           *)

Pow2(n) == 2 ^ n

Registers == 0 .. (NumRegisters - 1)

HashSpace == NumRegisters * Pow2(RankBits)

NewSketch == [k \in Registers |-> 0]

\* a small integer standing for the bytes of a string
StrCode(s) ==
    CASE s = "m" -> 1 [] s = "p" -> 3 [] s = "a" -> 5 [] s = "b" -> 7
      [] OTHER -> Len(s)

\* labels.Labels.Hash: a hash of the names and values in order
RECURSIVE HashFrom(_, _)
HashFrom(h, lbls) ==
    IF lbls = <<>> THEN h
    ELSE HashFrom((h * 31 + StrCode(Head(lbls).Name) * 7
                     + StrCode(Head(lbls).Value)) % Pow2(16),
                  Tail(lbls))

LabelsHash(lbls) == HashFrom(17, lbls)

\* binary.BigEndian.PutUint64: most significant byte first
RECURSIVE PutBytes(_, _)
PutBytes(v, n) ==
    IF n = 0 THEN <<>> ELSE Append(PutBytes(v \div 256, n - 1), v % 256)

PutUint64(hash) == PutBytes(hash, 8)

\* the library's digest of the bytes added, cut to the hash space
RECURSIVE Digest(_, _)
Digest(acc, bytes) ==
    IF bytes = <<>> THEN acc
    ELSE Digest((acc * 256 + Head(bytes)) % HashSpace, Tail(bytes))

RECURSIVE LeadingZeros(_, _)
LeadingZeros(w, bits) ==
    IF bits = 0 \/ w >= Pow2(bits - 1) THEN 0
    ELSE 1 + LeadingZeros(w, bits - 1)

\* mutant: the register takes the rank of the last element, greater or not
SketchAddOverwrite(sk, bytes) ==
    LET x   == Digest(0, bytes)
        k   == x \div Pow2(RankBits)
        reg == LeadingZeros(x % Pow2(RankBits), RankBits) + 1
    IN  [sk EXCEPT ![k] = reg]

\* Sketch.Add: the register of the element keeps the greater rank
SketchAdd(sk, bytes) ==
    LET x   == Digest(0, bytes)
        k   == x \div Pow2(RankBits)
        reg == LeadingZeros(x % Pow2(RankBits), RankBits) + 1
    IN  IF sk[k] < reg THEN [sk EXCEPT ![k] = reg] ELSE sk

\* Sketch.Merge: a new sketch, register by register the greater
SketchMerge(x, y) == [k \in Registers |-> IF x[k] < y[k] THEN y[k] ELSE x[k]]

RECURSIVE SumOver(_, _)
SumOver(sk, ks) ==
    IF ks = {} THEN 0
    ELSE LET k == CHOOSE k \in ks : TRUE
         IN  Pow2(RankBits + 1 - sk[k]) + SumOver(sk, ks \ {k})

\* Sketch.Cardinality: m * (m - ez) / sum of 2^-reg, ez the empty registers
\* (the library's bias corrections alpha and beta taken as 1 and 0)
SketchCardinality(sk) ==
    LET ez == Cardinality({k \in Registers : sk[k] = 0})
    IN  (NumRegisters * (NumRegisters - ez) * Pow2(RankBits + 1))
            \div SumOver(sk, Registers)

\* Sketch.Intersection: similarity * cardinality of the merge, rounded; the
\* similarity is the share of non-empty registers in which both agree
SketchIntersection(x, y) ==
    LET C == Cardinality({k \in Registers : x[k] # 0 /\ x[k] = y[k]})
        N == Cardinality({k \in Registers : x[k] # 0 \/ y[k] # 0})
    IN  IF C = 0 THEN 0
        ELSE (2 * C * SketchCardinality(SketchMerge(x, y)) + N) \div (2 * N)

-----------------------------------------------------------------------------
(* HyperMinHashIndex.                                                      *)

NewHyperMinHashIndex == EmptyMap

\* one iteration of the loop of HyperMinHashIndex.AddSeries
HmhAddLabel(index, l, hashBytes) ==
    LET valueMap == IF l.Name \in DOMAIN index THEN index[l.Name] ELSE EmptyMap
        hll      == IF l.Value \in DOMAIN valueMap THEN valueMap[l.Value]
                    ELSE NewSketch
    IN  MapPut(index, l.Name, MapPut(valueMap, l.Value, SketchAdd(hll, hashBytes)))

RECURSIVE HmhAddLabels(_, _, _)
HmhAddLabels(index, lbls, hashBytes) ==
    IF lbls = <<>> THEN index
    ELSE HmhAddLabels(HmhAddLabel(index, Head(lbls), hashBytes), Tail(lbls),
                      hashBytes)

\* mutant: the reference is what the sketches are given
HmhAddSeriesByRef(index, lbls, ref) ==
    HmhAddLabels(index, lbls, PutUint64(ref))

\* the reference is not used
HmhAddSeries(index, lbls, ref) ==
    HmhAddLabels(index, lbls, PutUint64(LabelsHash(lbls)))

\* mutant: the NotRegexp case takes the values its matcher matches
SketchSelectedValuesSingleNegation(valueMap, matcher) ==
    CASE matcher.Type = MatchEqual ->
            {v \in DOMAIN valueMap : v = matcher.Value}
      [] matcher.Type = MatchRegexp ->
            {v \in DOMAIN valueMap : Matches(matcher, v)}
      [] matcher.Type = MatchNotEqual ->
            {v \in DOMAIN valueMap : v # matcher.Value}
      [] matcher.Type = MatchNotRegexp ->
            {v \in DOMAIN valueMap : Matches(matcher, v)}
      [] OTHER -> {}

\* the values of valueMap whose sketches getSketchForMatcher merges; a type
\* outside the enumeration falls through the switch
SketchSelectedValues(valueMap, matcher) ==
    CASE matcher.Type = MatchEqual ->
            {v \in DOMAIN valueMap : v = matcher.Value}
      [] matcher.Type = MatchRegexp ->
            {v \in DOMAIN valueMap : Matches(matcher, v)}
      [] matcher.Type = MatchNotEqual ->
            {v \in DOMAIN valueMap : v # matcher.Value}
      [] matcher.Type = MatchNotRegexp ->
            {v \in DOMAIN valueMap : ~Matches(matcher, v)}
      [] OTHER -> {}

RECURSIVE MergeAll(_, _)
MergeAll(resultSketch, sketches) ==
    IF sketches = {} THEN resultSketch
    ELSE LET s == CHOOSE s \in sketches : TRUE
         IN  MergeAll(SketchMerge(resultSketch, s), sketches \ {s})

getSketchForMatcher(index, matcher) ==
    IF matcher.Name \in DOMAIN index
    THEN LET valueMap == index[matcher.Name]
         IN  MergeAll(NewSketch,
                      {valueMap[v] : v \in SketchSelectedValues(valueMap, matcher)})
    ELSE NewSketch

\* mutant: the comparison is turned around, the greater is kept
MinKeepsGreater(x, y) == IF x > y THEN x ELSE y

Min(x, y) == IF x < y THEN x ELSE y

\* mutant: the inner loop stops one short, the last sketch is in no pair
RECURSIVE PairLoopSkipsLast(_, _, _, _)
PairLoopSkipsLast(sketches, card, i, j) ==
    IF i > Len(sketches) THEN card
    ELSE IF j >= Len(sketches) THEN PairLoopSkipsLast(sketches, card, i + 1, i + 2)
    ELSE PairLoopSkipsLast(sketches,
                  Min(card, SketchIntersection(sketches[i], sketches[j])),
                  i, j + 1)

\* the two nested loops of cardinalityUsingJacaards, from pair (i, j) on
RECURSIVE PairLoop(_, _, _, _)
PairLoop(sketches, card, i, j) ==
    IF i > Len(sketches) THEN card
    ELSE IF j > Len(sketches) THEN PairLoop(sketches, card, i + 1, i + 2)
    ELSE PairLoop(sketches,
                  Min(card, SketchIntersection(sketches[i], sketches[j])),
                  i, j + 1)

cardinalityUsingJacaards(index, matchers) ==
    IF Len(matchers) = 0 THEN 0
    ELSE LET sketches == [i \in 1..Len(matchers) |->
                             getSketchForMatcher(index, matchers[i])]
         IN  PairLoop(sketches, SketchCardinality(sketches[1]), 1, 2)

HmhGetCardinality(index, matchers) == cardinalityUsingJacaards(index, matchers)

\* a stored sketch after resultSketch.Merge(hll): Merge copies its receiver
\* and only reads hll
SketchAfterMergedFrom(hll) == hll

\* the index when an estimator returns: the stored sketches the matchers
\* select have been arguments of Merge
HmhIndexAfter(index, matchers) ==
    [n \in DOMAIN index |->
        [v \in DOMAIN index[n] |->
            IF \E i \in DOMAIN matchers :
                   /\ matchers[i].Name = n
                   /\ v \in SketchSelectedValues(index[n], matchers[i])
            THEN SketchAfterMergedFrom(index[n][v])
            ELSE index[n][v]]]

\* the inner loop of cardinalityUsingInclusionExclusion: the merge of the
\* sketches of the matchers whose bit is set in subset
RECURSIVE SubsetSketch(_, _, _, _)
SubsetSketch(index, matchers, subset, i) ==
    IF i > Len(matchers) THEN NewSketch
    ELSE LET rest == SubsetSketch(index, matchers, subset, i + 1)
         IN  IF (subset \div Pow2(i - 1)) % 2 = 1
             THEN SketchMerge(getSketchForMatcher(index, matchers[i]), rest)
             ELSE rest

\* mutant: the sign is taken from the subset's number, not from the number
\* of matchers in it
IncludedMatchersBySubset(n, subset) == subset

IncludedMatchers(n, subset) ==
    Cardinality({i \in 1..n : (subset \div Pow2(i - 1)) % 2 = 1})

RECURSIVE InclusionExclusionLoop(_, _, _, _)
InclusionExclusionLoop(index, matchers, subset, result) ==
    IF subset >= Pow2(Len(matchers)) THEN result
    ELSE LET subsetCardinality ==
                 SketchCardinality(SubsetSketch(index, matchers, subset, 1))
         IN  InclusionExclusionLoop(index, matchers, subset + 1,
                 IF IncludedMatchers(Len(matchers), subset) % 2 = 1
                 THEN result + subsetCardinality
                 ELSE result - subsetCardinality)

cardinalityUsingInclusionExclusion(index, matchers) ==
    IF Len(matchers) = 0 THEN 0
    ELSE InclusionExclusionLoop(index, matchers, 1, 0)

\* The same estimator over exact sets: New is the empty set, Merge the
\* union, Cardinality the size; bags[i] is the selector bag of matcher i.
RECURSIVE ExactSubsetUnion(_, _, _)
ExactSubsetUnion(bags, subset, i) ==
    IF i > Len(bags) THEN {}
    ELSE LET rest == ExactSubsetUnion(bags, subset, i + 1)
         IN  IF (subset \div Pow2(i - 1)) % 2 = 1
             THEN bags[i] \cup rest
             ELSE rest

RECURSIVE ExactInclusionExclusionLoop(_, _, _)
ExactInclusionExclusionLoop(bags, subset, result) ==
    IF subset >= Pow2(Len(bags)) THEN result
    ELSE LET subsetCardinality == Cardinality(ExactSubsetUnion(bags, subset, 1))
         IN  ExactInclusionExclusionLoop(bags, subset + 1,
                 IF IncludedMatchers(Len(bags), subset) % 2 = 1
                 THEN result + subsetCardinality
                 ELSE result - subsetCardinality)

ExactInclusionExclusion(bags) ==
    IF Len(bags) = 0 THEN 0
    ELSE ExactInclusionExclusionLoop(bags, 1, 0)

-----------------------------------------------------------------------------
(* The store: the head block's series, and the querier's Select.           *)

\* the reference of lbls in the store, 0 when it holds no such series
StoreRef(st, lbls) ==
    IF \E r \in DOMAIN st : st[r] = lbls
    THEN CHOOSE r \in DOMAIN st : st[r] = lbls
    ELSE 0

\* Appender.Append: a series already there keeps its reference, a new one
\* gets the next
StoreAppend(st, lbls) ==
    IF StoreRef(st, lbls) # 0 THEN st ELSE Append(st, lbls)

\* querier.Select: the series every matcher matches, a label the series
\* lacks read as ""
StoreSelect(st, matchers) ==
    {r \in DOMAIN st :
        \A i \in DOMAIN matchers :
            Matches(matchers[i], LabelsGet(st[r], matchers[i].Name))}

getActualCard(st, matchers) == Cardinality(StoreSelect(st, matchers))

-----------------------------------------------------------------------------
(* BlockIndex: the count read from the postings of the store's head.       *)

\* a Postings value: the nil interface, or an iterator over references
NilPostings == [nil |-> TRUE, refs |-> {}]

ListPostings(refs) == [nil |-> FALSE, refs |-> refs]

\* indexReader.Postings(name, value): the series with the pair, none when
\* no series has it
ReaderPostings(st, n, v) ==
    ListPostings({r \in DOMAIN st : \E j \in DOMAIN st[r] : st[r][j] = Label(n, v)})

\* indexReader.LabelValues(name)
ReaderLabelValues(st, n) ==
    UNION { {st[r][j].Value : j \in {k \in DOMAIN st[r] : st[r][k].Name = n}}
            : r \in DOMAIN st }

\* index.Without, index.Merge, index.Intersect
PostingsWithout(full, drop) == ListPostings(full.refs \ drop.refs)

PostingsMerge(x, y) == ListPostings(x.refs \cup y.refs)

PostingsIntersect(x, y) == ListPostings(x.refs \cap y.refs)

\* the loop over allValues of the two regex cases: nil until a value is
\* taken, then the merge of the postings taken
RECURSIVE MergeValuePostings(_, _, _, _)
MergeValuePostings(st, n, values, matcherPostings) ==
    IF values = {} THEN matcherPostings
    ELSE LET value == CHOOSE value \in values : TRUE
             valuePostings == ReaderPostings(st, n, value)
         IN  MergeValuePostings(st, n, values \ {value},
                 IF matcherPostings.nil THEN valuePostings
                 ELSE PostingsMerge(matcherPostings, valuePostings))

\* the switch of BlockIndex.GetCardinality; a type outside the enumeration
\* leaves matcherPostings nil
BlockMatcherPostings(st, matcher) ==
    CASE matcher.Type = MatchEqual ->
            ReaderPostings(st, matcher.Name, matcher.Value)
      [] matcher.Type = MatchNotEqual ->
            LET allPostings == ReaderPostings(st, matcher.Name, "")
                excludedPostings == ReaderPostings(st, matcher.Name, matcher.Value)
            IN  PostingsWithout(allPostings, excludedPostings)
      [] matcher.Type = MatchRegexp ->
            MergeValuePostings(st, matcher.Name,
                {v \in ReaderLabelValues(st, matcher.Name) : Matches(matcher, v)},
                NilPostings)
      [] matcher.Type = MatchNotRegexp ->
            MergeValuePostings(st, matcher.Name,
                {v \in ReaderLabelValues(st, matcher.Name) : ~Matches(matcher, v)},
                NilPostings)
      [] OTHER -> NilPostings

\* what a call ends in: a value returned, or a panic
Value(n) == [result |-> n, panicked |-> FALSE]

Panic == [result |-> 0, panicked |-> TRUE]

\* the loop over the matchers, then the count; Next on the nil interface
\* is a nil dereference
RECURSIVE BlockLoop(_, _, _)
BlockLoop(st, postings, matchers) ==
    IF matchers = <<>>
    THEN IF postings.nil THEN Panic ELSE Value(Cardinality(postings.refs))
    ELSE LET matcherPostings == BlockMatcherPostings(st, Head(matchers))
         IN  IF matcherPostings.nil THEN Value(0)
             ELSE BlockLoop(st,
                     IF postings.nil THEN matcherPostings
                     ELSE PostingsIntersect(postings, matcherPostings),
                     Tail(matchers))

BlockGetCardinality(st, matchers) == BlockLoop(st, NilPostings, matchers)

-----------------------------------------------------------------------------
(* The universe of the small model.                                        *)

LabelSets ==
    { <<Label("m", "a")>>,
      <<Label("m", "a"), Label("p", "b")>>,
      <<Label("m", "b"), Label("p", "b")>> }

Refs == 1..MaxRef

QueryMatchers ==
    { Matcher(MatchEqual, "m", "a"),
      Matcher(MatchRegexp, "m", "a|b"),
      Matcher(MatchEqual, "p", "a"),
      Matcher(MatchNotEqual, "p", "a"),
      Matcher(MatchRegexp, "m", "a"),
      Matcher(MatchNotRegexp, "m", "a"),
      Matcher(MatchInvalid, "m", "a") }

RECURSIVE SeqsUpTo(_, _)
SeqsUpTo(S, n) ==
    IF n = 0 THEN {<<>>}
    ELSE LET shorter == SeqsUpTo(S, n - 1)
         IN  shorter \cup {Append(q, x) : q \in shorter, x \in S}

Queries == SeqsUpTo(QueryMatchers, MaxMatchers)

Call(lbls, ref) == [lbls |-> lbls, ref |-> ref]

\* ingestData not running
NoPending == [todo |-> {}, family |-> "", next |-> 0]

\* the caller's position: Ready for its next call, or holding what the last
\* GetCardinality returned
Ready == [op |-> "none", matchers |-> <<>>, result |-> 0, panicked |-> FALSE]

Returned(op, matchers, result) ==
    [op |-> op, matchers |-> matchers, result |-> result, panicked |-> FALSE]

-----------------------------------------------------------------------------
(* Operations.                                                             *)

Init ==
    /\ bitmapIndex = NewBitmapIndex
    /\ hmhIndex = NewHyperMinHashIndex
    /\ stringPool = EmptyMap
    /\ store = <<>>
    /\ calls = {}
    /\ pending = NoPending
    /\ last = Ready
    /\ instances = <<>>
    /\ heap = <<>>

\* updateFn of the tests: the series goes to both indexes
UpdateFn(ref, lbls) ==
    /\ bitmapIndex' = BitmapAddSeries(bitmapIndex, lbls, ref)
    /\ hmhIndex' = HmhAddSeries(hmhIndex, lbls, ref)
    /\ stringPool' = InternLabels(stringPool, lbls)
    /\ calls' = calls \cup {Call(lbls, ref)}

\* AddSeries on both indexes with any labels and any reference
AddSeries ==
    \E lbls \in LabelSets, ref \in Refs :
        /\ last = Ready
        /\ Cardinality(calls \cup {Call(lbls, ref)}) <= MaxCalls
        /\ UpdateFn(ref, lbls)
        /\ UNCHANGED <<store, pending, last, instances, heap>>

\* BitmapIndex.GetCardinality
BitmapQuery ==
    \E matchers \in Queries :
        /\ last = Ready
        /\ last' = Returned("BitmapGetCardinality", matchers,
                            BitmapGetCardinality(bitmapIndex, matchers))
        /\ bitmapIndex' = BitmapIndexAfter(bitmapIndex, matchers)
        /\ UNCHANGED <<hmhIndex, stringPool, store, calls, pending,
                       instances, heap>>

\* HyperMinHashIndex.GetCardinality
HmhQuery ==
    \E matchers \in Queries :
        /\ last = Ready
        /\ last' = Returned("HmhGetCardinality", matchers,
                            HmhGetCardinality(hmhIndex, matchers))
        /\ hmhIndex' = HmhIndexAfter(hmhIndex, matchers)
        /\ UNCHANGED <<bitmapIndex, stringPool, store, calls, pending,
                       instances, heap>>

\* HyperMinHashIndex.cardinalityUsingInclusionExclusion
InclusionExclusionQuery ==
    \E matchers \in Queries :
        /\ last = Ready
        /\ last' = Returned("InclusionExclusion", matchers,
                            cardinalityUsingInclusionExclusion(hmhIndex, matchers))
        /\ hmhIndex' = HmhIndexAfter(hmhIndex, matchers)
        /\ UNCHANGED <<bitmapIndex, stringPool, store, calls, pending,
                       instances, heap>>

\* the caller takes the value returned and goes on to its next call
Continue ==
    /\ last # Ready
    /\ last' = Ready
    /\ UNCHANGED <<bitmapIndex, hmhIndex, stringPool, store, calls, pending,
                   instances, heap>>

Next ==
    \/ AddSeries
    \/ BitmapQuery
    \/ HmhQuery
    \/ InclusionExclusionQuery
    \/ Continue

Spec == Init /\ [][Next]_vars

-----------------------------------------------------------------------------
(* The same indexes fed through the store, as the tests feed them.         *)

\* one iteration of ingestData: Append gives the reference, updateFn gets it
Ingest ==
    \E lbls \in LabelSets :
        LET st  == StoreAppend(store, lbls)
            ref == StoreRef(st, lbls)
        IN  /\ last = Ready
            /\ Cardinality(calls \cup {Call(lbls, ref)}) <= MaxCalls
            /\ store' = st
            /\ UpdateFn(ref, lbls)
            /\ UNCHANGED <<pending, last, instances, heap>>

ValidQueries ==
    {q \in Queries : \A i \in DOMAIN q : q[i].Type \in MatchTypes}

\* getActualCard of the tests
ActualCardQuery ==
    \E matchers \in ValidQueries :
        /\ last = Ready
        /\ last' = Returned("getActualCard", matchers,
                            getActualCard(store, matchers))
        /\ UNCHANGED <<bitmapIndex, hmhIndex, stringPool, store, calls, pending,
                       instances, heap>>

\* BlockIndex.GetCardinality on the same store
BlockQuery ==
    \E matchers \in Queries :
        /\ last = Ready
        /\ last' = [op |-> "BlockGetCardinality", matchers |-> matchers,
                    result |-> BlockGetCardinality(store, matchers).result,
                    panicked |-> BlockGetCardinality(store, matchers).panicked]
        /\ UNCHANGED <<bitmapIndex, hmhIndex, stringPool, store, calls, pending,
                       instances, heap>>

NextStore ==
    \/ Ingest
    \/ BitmapQuery
    \/ HmhQuery
    \/ ActualCardQuery
    \/ BlockQuery
    \/ Continue

SpecStore == Init /\ [][NextStore]_vars

-----------------------------------------------------------------------------
(* The estimators side by side, on conjunctions of up to                   *)
(* MaxEstimatorMatchers matchers.                                          *)

EstimatorMatchers ==
    { Matcher(MatchEqual, "m", "a"),
      Matcher(MatchRegexp, "m", "a|b"),
      Matcher(MatchEqual, "p", "b"),
      Matcher(MatchEqual, "p", "a") }

EstimatorQueries == SeqsUpTo(EstimatorMatchers, MaxEstimatorMatchers)

\* HyperMinHashIndex.GetCardinality
JaccardEstimate ==
    \E matchers \in EstimatorQueries :
        /\ last = Ready
        /\ last' = Returned("HmhGetCardinality", matchers,
                            HmhGetCardinality(hmhIndex, matchers))
        /\ hmhIndex' = HmhIndexAfter(hmhIndex, matchers)
        /\ UNCHANGED <<bitmapIndex, stringPool, store, calls, pending,
                       instances, heap>>

\* HyperMinHashIndex.cardinalityUsingInclusionExclusion
InclusionExclusionEstimate ==
    \E matchers \in EstimatorQueries :
        /\ last = Ready
        /\ last' = Returned("InclusionExclusion", matchers,
                            cardinalityUsingInclusionExclusion(hmhIndex, matchers))
        /\ hmhIndex' = HmhIndexAfter(hmhIndex, matchers)
        /\ UNCHANGED <<bitmapIndex, stringPool, store, calls, pending,
                       instances, heap>>

\* BitmapIndex.GetCardinality
BitmapCount ==
    \E matchers \in EstimatorQueries :
        /\ last = Ready
        /\ last' = Returned("BitmapGetCardinality", matchers,
                            BitmapGetCardinality(bitmapIndex, matchers))
        /\ bitmapIndex' = BitmapIndexAfter(bitmapIndex, matchers)
        /\ UNCHANGED <<hmhIndex, stringPool, store, calls, pending,
                       instances, heap>>

NextEstimators ==
    \/ AddSeries
    \/ JaccardEstimate
    \/ InclusionExclusionEstimate
    \/ BitmapCount
    \/ Continue

SpecEstimators == Init /\ [][NextEstimators]_vars

-----------------------------------------------------------------------------
(* The metric families of the tests (generateMetricMap), ingested as       *)
(* TestCardinality does and then queried.                                  *)

\* mutant: the values are numbered from 1
generateValuesFromOne(pre, count) == [i \in 1..count |-> pre \o "-" \o Itoa(i)]

\* generateValues: pre-0 .. pre-(count-1)
generateValues(pre, count) == [i \in 1..count |-> pre \o "-" \o Itoa(i - 1)]

Methods == <<"GET", "POST", "PUT", "PATCH", "DELETE">>

Apis == <<"QueryStream", "Push", "MetricsForLabelMatchers", "LabelValues",
          "LabelNames">>

LabelValue(n, vs) == [name |-> n, values |-> vs]

generateMetricMap ==
    [ http_request_total |->
        << LabelValue("method", SubSeq(Methods, 1, NumMethods)),
           LabelValue("pod", generateValues("pod", NumPods)),
           LabelValue("user", generateValues("user", NumUsers)) >>,
      ingester_active_series |->
        << LabelValue("api", Apis),
           LabelValue("ingester", generateValues("ingester", NumIngesters)),
           LabelValue("user", generateValues("user", NumUsers)) >>,
      blocks_loaded |->
        << LabelValue("block", generateValues("ID", NumBlocks)),
           LabelValue("instance", generateValues("store-gateway", NumInstances)),
           LabelValue("user", generateValues("user", NumBlockUsers)) >> ]

\* the number of combinations generateCombinations makes of the labels
\* from position k on
RECURSIVE CombinationCount(_, _)
CombinationCount(metricLabels, k) ==
    IF k > Len(metricLabels) THEN 1
    ELSE Len(metricLabels[k].values) * CombinationCount(metricLabels, k + 1)

\* the i-th combination (from 0) of generateCombinations: the first label
\* varies slowest
Combination(metricLabels, i) ==
    [k \in 1..Len(metricLabels) |->
        LET stride == CombinationCount(metricLabels, k + 1)
            vs     == metricLabels[k].values
        IN  Label(metricLabels[k].name, vs[((i \div stride) % Len(vs)) + 1])]

\* builder.Labels() of ingestData: the metric name, then the labels, whose
\* names are in order already
SeriesLabels(metricName, i) ==
    <<Label("__name__", metricName)>> \o Combination(generateMetricMap[metricName], i)

InitScenario ==
    /\ bitmapIndex = NewBitmapIndex
    /\ hmhIndex = NewHyperMinHashIndex
    /\ stringPool = EmptyMap
    /\ store = <<>>
    /\ calls = {}
    /\ pending = [todo |-> DOMAIN generateMetricMap, family |-> "", next |-> 0]
    /\ last = Ready
    /\ instances = <<>>
    /\ heap = <<>>

\* ingestData's outer loop takes the next metric family, in the order the
\* map yields them, which is any order
NextFamily ==
    /\ pending.family = ""
    /\ \E f \in pending.todo :
          pending' = [todo |-> pending.todo \ {f}, family |-> f, next |-> 0]
    /\ UNCHANGED <<bitmapIndex, hmhIndex, stringPool, store, calls, last,
                   instances, heap>>

\* one iteration of ingestData's inner loop: the series is appended to the
\* store and given to both indexes with the reference it got
IngestSeries ==
    /\ pending.family # ""
    /\ LET lbls == SeriesLabels(pending.family, pending.next)
           st   == StoreAppend(store, lbls)
           ref  == StoreRef(st, lbls)
           n    == CombinationCount(generateMetricMap[pending.family], 1)
       IN  /\ store' = st
           /\ UpdateFn(ref, lbls)
           /\ pending' = IF pending.next + 1 < n
                         THEN [pending EXCEPT !.next = pending.next + 1]
                         ELSE [pending EXCEPT !.family = "", !.next = 0]
    /\ UNCHANGED <<last, instances, heap>>

Ingested == pending.todo = {} /\ pending.family = ""

\* the queries of the scenario table, by number
ScenarioQuery(k) ==
    CASE k = 1 -> << Matcher(MatchRegexp, "__name__",
                             "http_request_total|ingester_active_series"),
                     Matcher(MatchRegexp, "pod", "pod-0") >>
      [] k = 2 -> << Matcher(MatchEqual, "__name__", "http_request_total"),
                     Matcher(MatchRegexp, "method", "GET|POST|PUT|PATCH|DELETE"),
                     Matcher(MatchRegexp, "pod", "pod-[0-9]") >>
      [] k = 3 -> << Matcher(MatchEqual, "method", "GET") >>
      [] k = 4 -> << Matcher(MatchEqual, "method", "GET"),
                     Matcher(MatchEqual, "pod", "pod-0") >>
      [] k = 5 -> << Matcher(MatchRegexp, "__name__", ".+") >>
      [] k = 6 -> << Matcher(MatchRegexp, "__name__", ".+"),
                     Matcher(MatchRegexp, "method", ".+"),
                     Matcher(MatchEqual, "pod", "unknown") >>
      [] k = 7 -> << Matcher(MatchEqual, "method", "GET"),
                     Matcher(MatchRegexp, "pod", "pod-[0-9]{3}") >>
      [] k = 8 -> << Matcher(MatchRegexp, "user", ".*"),
                     Matcher(MatchRegexp, "instance", ".*"),
                     Matcher(MatchRegexp, "__name__", "blocks_loaded") >>

ScenarioQueries == {ScenarioQuery(k) : k \in 1..8}

\* the test's loop over its cases, once ingestData has returned
ScenarioBitmapQuery ==
    \E matchers \in ScenarioQueries :
        /\ Ingested
        /\ last = Ready
        /\ last' = Returned("BitmapGetCardinality", matchers,
                            BitmapGetCardinality(bitmapIndex, matchers))
        /\ bitmapIndex' = BitmapIndexAfter(bitmapIndex, matchers)
        /\ UNCHANGED <<hmhIndex, stringPool, store, calls, pending,
                       instances, heap>>

ScenarioHmhQuery ==
    \E matchers \in ScenarioQueries :
        /\ Ingested
        /\ last = Ready
        /\ last' = Returned("HmhGetCardinality", matchers,
                            HmhGetCardinality(hmhIndex, matchers))
        /\ hmhIndex' = HmhIndexAfter(hmhIndex, matchers)
        /\ UNCHANGED <<bitmapIndex, stringPool, store, calls, pending,
                       instances, heap>>

ScenarioActualCard ==
    \E matchers \in ScenarioQueries :
        /\ Ingested
        /\ last = Ready
        /\ last' = Returned("getActualCard", matchers,
                            getActualCard(store, matchers))
        /\ UNCHANGED <<bitmapIndex, hmhIndex, stringPool, store, calls, pending,
                       instances, heap>>

NextScenario ==
    \/ NextFamily
    \/ IngestSeries
    \/ ScenarioBitmapQuery
    \/ ScenarioHmhQuery
    \/ ScenarioActualCard
    \/ Continue

SpecScenario == InitScenario /\ [][NextScenario]_vars

-----------------------------------------------------------------------------
(* What the claims speak of.                                               *)

IndexQueryOps == {"BitmapGetCardinality", "HmhGetCardinality"}

QueryOps == IndexQueryOps \cup {"InclusionExclusion"}

AllValid(matchers) == \A i \in DOMAIN matchers : matchers[i].Type \in MatchTypes

\* the values recorded for reference r under label name n by the calls made
RecordedValues(log, r, n) ==
    UNION { {c.lbls[j].Value : j \in {k \in DOMAIN c.lbls : c.lbls[k].Name = n}}
            : c \in {d \in log : d.ref = r} }

\* the references recorded under, for every matcher, some value it admits
Satisfying(log, matchers) ==
    {r \in {c.ref : c \in log} :
        \A i \in DOMAIN matchers :
            \E v \in RecordedValues(log, r, matchers[i].Name) :
                Matches(matchers[i], v)}

InsertAt(q, pos, x) == SubSeq(q, 1, pos) \o <<x>> \o SubSeq(q, pos + 1, Len(q))

RECURSIVE Orderings(_)
Orderings(S) ==
    IF S = {} THEN {<<>>}
    ELSE UNION { {<<x>> \o o : o \in Orderings(S \ {x})} : x \in S }

RECURSIVE ReplayBitmap(_, _)
ReplayBitmap(index, cs) ==
    IF cs = <<>> THEN index
    ELSE ReplayBitmap(BitmapAddSeries(index, Head(cs).lbls, Head(cs).ref), Tail(cs))

RECURSIVE ReplayHmh(_, _)
ReplayHmh(index, cs) ==
    IF cs = <<>> THEN index
    ELSE ReplayHmh(HmhAddSeries(index, Head(cs).lbls, Head(cs).ref), Tail(cs))

NameIngested(log, n) ==
    \E c \in log : \E j \in DOMAIN c.lbls : c.lbls[j].Name = n

PairIngested(log, n, v) ==
    \E c \in log : \E j \in DOMAIN c.lbls : c.lbls[j] = Label(n, v)

\* a matcher of one of the four kinds on a name never ingested, or an Equal
\* matcher on a value never ingested under its name
Unknown(log, m) ==
    /\ m.Type \in MatchTypes
    /\ \/ ~NameIngested(log, m.Name)
       \/ m.Type = MatchEqual /\ ~PairIngested(log, m.Name, m.Value)

-----------------------------------------------------------------------------
(* C1: after any AddSeries calls, BitmapIndex.GetCardinality of a          *)
(* non-empty list of matchers returns the number of distinct references    *)
(* recorded, for every matcher of the list, under some value the matcher   *)
(* admits; the same holds of every prefix of the list (the running         *)
(* bitmap).                                                                *)
C1_Exactness ==
    (last.op = "BitmapGetCardinality" /\ last.matchers # <<>>
        /\ AllValid(last.matchers))
    => /\ last.result = Cardinality(Satisfying(calls, last.matchers))
       /\ \A k \in 1..Len(last.matchers) :
            BitmapGetCardinality(bitmapIndex, SubSeq(last.matchers, 1, k))
                = Cardinality(Satisfying(calls, SubSeq(last.matchers, 1, k)))

(* C2: when every series is fed to the store and to the bitmap index with  *)
(* the store's reference, the bitmap index returns for a non-empty matcher *)
(* list the number of series the store selects, a label a series lacks     *)
(* reading as the empty value.                                             *)
C2_AgreesWithStore ==
    (/\ last.op = "BitmapGetCardinality"
     /\ last.matchers # <<>>
     /\ AllValid(last.matchers))
    => last.result = getActualCard(store, last.matchers)

(* C3: GetCardinality with no matcher returns 0, for the bitmap index and  *)
(* for the sketch index under both estimators.                             *)
C3_EmptyMatchers ==
    (last.op \in QueryOps /\ last.matchers = <<>>)
    => (last.result = 0 /\ ~last.panicked)

C3_Witness ==
    /\ last.op = "BitmapGetCardinality"
    /\ last.matchers = <<>>
    /\ Cardinality(calls) = 2

(* C4: inserting one more matcher at any position of a non-empty list      *)
(* never increases what BitmapIndex.GetCardinality returns.                *)
C4_Monotonicity ==
    (last.op = "BitmapGetCardinality" /\ last.matchers # <<>>)
    => \A m \in QueryMatchers, pos \in 0..Len(last.matchers) :
          BitmapGetCardinality(bitmapIndex, InsertAt(last.matchers, pos, m))
              <= last.result

\* a matcher inserted in front lowers a count of 2 to 1
C4_Witness ==
    /\ last.op = "BitmapGetCardinality"
    /\ last.matchers # <<>>
    /\ last.result = 2
    /\ \E m \in QueryMatchers :
          BitmapGetCardinality(bitmapIndex, InsertAt(last.matchers, 0, m)) = 1

(* C5: from any index state, AddSeries called twice with the same labels   *)
(* and reference leaves both indexes as calling it once does.  (Every      *)
(* index state occurs with the caller Ready.)                              *)
C5_Idempotence ==
    last = Ready
    => \A lbls \in LabelSets, ref \in Refs :
          LET b1 == BitmapAddSeries(bitmapIndex, lbls, ref)
              h1 == HmhAddSeries(hmhIndex, lbls, ref)
          IN  /\ BitmapAddSeries(b1, lbls, ref) = b1
              /\ HmhAddSeries(h1, lbls, ref) = h1

\* an index that holds a series, to which a second one is added twice
C5_Witness ==
    /\ last = Ready
    /\ Cardinality(calls) = 1
    /\ \E lbls \in LabelSets, ref \in Refs :
          LET b1 == BitmapAddSeries(bitmapIndex, lbls, ref)
              h1 == HmhAddSeries(hmhIndex, lbls, ref)
          IN  /\ b1 # bitmapIndex /\ BitmapAddSeries(b1, lbls, ref) = b1
              /\ h1 # hmhIndex /\ HmhAddSeries(h1, lbls, ref) = h1

(* C6: every order of the AddSeries calls made builds a bitmap index on    *)
(* which GetCardinality returns the same for every matcher list, and a     *)
(* sketch index with the same sketches.                                    *)
C6_Commutativity ==
    last = Ready
    => \A cs \in Orderings(calls) :
          LET b == ReplayBitmap(NewBitmapIndex, cs)
          IN  /\ b = bitmapIndex
              /\ \A q \in Queries :
                    BitmapGetCardinality(b, q)
                        = BitmapGetCardinality(bitmapIndex, q)
              /\ ReplayHmh(NewHyperMinHashIndex, cs) = hmhIndex

\* two calls with different references that write the same bitmap and the
\* same sketch
C6_Witness ==
    /\ last = Ready
    /\ \E c, d \in calls :
          /\ c.ref # d.ref /\ c.lbls # d.lbls
          /\ \E i \in DOMAIN c.lbls, j \in DOMAIN d.lbls :
                LET l == c.lbls[i]
                IN  /\ l = d.lbls[j]
                    /\ bitmapIndex[l.Name][l.Value] = {c.ref, d.ref}
                    /\ \A k \in Registers : hmhIndex[l.Name][l.Value][k] # 0

(* C7: a matcher of one of the four kinds on a label name never ingested,  *)
(* or an Equal matcher on a value never ingested, has an empty selector    *)
(* bag, and GetCardinality of a list that holds it returns 0 without       *)
(* panicking, in both indexes.                                             *)
C7_UnknownLabel ==
    \A i \in DOMAIN last.matchers :
        (last.op \in IndexQueryOps /\ Unknown(calls, last.matchers[i]))
        => /\ getUnionBitmapForMatcher(bitmapIndex, last.matchers[i]) = NewBitmap
           /\ getSketchForMatcher(hmhIndex, last.matchers[i]) = NewSketch
           /\ last.result = 0
           /\ ~last.panicked

\* the sketch index asked for a known matcher and then a NotEqual matcher
\* on a name it never saw
C7_Witness ==
    /\ last.op = "HmhGetCardinality"
    /\ Len(last.matchers) = 2
    /\ ~Unknown(calls, last.matchers[1])
    /\ getSketchForMatcher(hmhIndex, last.matchers[1]) # NewSketch
    /\ last.matchers[2].Type = MatchNotEqual
    /\ ~NameIngested(calls, last.matchers[2].Name)

(* C8: GetCardinality panics when the list holds a matcher whose kind is   *)
(* outside Equal, NotEqual, Regex, NotRegex.                               *)
C8_InvalidKindPanics ==
    (last.op \in QueryOps
        /\ \E i \in DOMAIN last.matchers : last.matchers[i].Type \notin MatchTypes)
    => last.panicked


\* the pods numbered from lo to hi
PodsBetween(lo, hi) ==
    Cardinality({i \in 0..(NumPods - 1) : lo <= i /\ i <= hi})

HttpSeries == NumMethods * NumPods * NumUsers

IngesterSeries == Len(Apis) * NumIngesters * NumUsers

BlockSeries == NumBlocks * NumInstances * NumBlockUsers

\* the table's results as products over the construction: 500, 5,000,
\* 100,000, 100, 2,000,000, 0 and 1,000,000 at its full size
ScenarioExpected(k) ==
    CASE k = 1 -> NumMethods * NumUsers
      [] k = 2 -> PodsBetween(0, 9) * NumMethods * NumUsers
      [] k = 3 -> NumPods * NumUsers
      [] k = 4 -> NumUsers
      [] k = 5 -> HttpSeries + IngesterSeries + BlockSeries
      [] k = 6 -> 0
      [] k = 8 -> BlockSeries

(* C9: once the three metric families are ingested, the bitmap index       *)
(* returns for queries 1-6 and 8 of the scenario table the table's         *)
(* results, taken as products over the scaled construction.                *)
C9_ScenarioResults ==
    \A k \in {1, 2, 3, 4, 5, 6, 8} :
        (Ingested /\ last.op = "BitmapGetCardinality"
            /\ last.matchers = ScenarioQuery(k))
        => last.result = ScenarioExpected(k)

\* query 2 answered after the whole ingest, with pods of more than one digit
\* in the index
C9_Witness ==
    /\ Ingested
    /\ Len(store) = HttpSeries + IngesterSeries + BlockSeries
    /\ last.op = "BitmapGetCardinality"
    /\ last.matchers = ScenarioQuery(2)
    /\ last.result > 0
    /\ PodsBetween(10, 99) > 0

(* C10: once the three metric families are ingested, the bitmap index      *)
(* returns for method="GET", pod=~"pod-[0-9]{3}" one series per user and   *)
(* pod whose number has three digits (pod-100 and up), not one per user    *)
(* and pod.                                                                *)
C10_ThreeDigitPods ==
    (Ingested /\ last.op = "BitmapGetCardinality"
        /\ last.matchers = ScenarioQuery(7))
    => last.result = PodsBetween(100, 999) * NumUsers

\* query 7 answered after the whole ingest, with pods of one, two and three
\* digits in the index
C10_Witness ==
    /\ Ingested
    /\ Len(store) = HttpSeries + IngesterSeries + BlockSeries
    /\ last.op = "BitmapGetCardinality"
    /\ last.matchers = ScenarioQuery(7)
    /\ PodsBetween(0, 9) > 0 /\ PodsBetween(10, 99) > 0
    /\ PodsBetween(100, 999) > 0

\* C10 as the table states it: one series per user and pod, 100,000 at the
\* construction's full size
C10_AllPods ==
    (Ingested /\ last.op = "BitmapGetCardinality"
        /\ last.matchers = ScenarioQuery(7))
    => last.result = NumPods * NumUsers


(* C12: GetCardinality of either index, and the inclusion-exclusion        *)
(* estimator, leave the inverted map with the same keys and every stored   *)
(* bitmap and sketch with the same contents, so the same query asked again *)
(* at once returns the same value.                                         *)
C12_PureRead ==
    [][(last = Ready /\ last' # Ready)
        => /\ bitmapIndex' = bitmapIndex
           /\ hmhIndex' = hmhIndex
           /\ last'.op = "BitmapGetCardinality"
                => BitmapGetCardinality(bitmapIndex', last'.matchers) = last'.result
           /\ last'.op = "HmhGetCardinality"
                => HmhGetCardinality(hmhIndex', last'.matchers) = last'.result
           /\ last'.op = "InclusionExclusion"
                => cardinalityUsingInclusionExclusion(hmhIndex', last'.matchers)
                       = last'.result]_vars

\* a bitmap query has returned whose first matcher is an Equal matcher on a
\* stored pair and whose And took references out of the running bitmap
C12_Witness ==
    /\ last.op = "BitmapGetCardinality"
    /\ Len(last.matchers) = 2
    /\ last.matchers[1].Type = MatchEqual
    /\ PairIngested(calls, last.matchers[1].Name, last.matchers[1].Value)
    /\ IntersectionBitmapAfter(bitmapIndex,
            getUnionBitmapForMatcher(bitmapIndex, last.matchers[1]),
            Tail(last.matchers))
         # bitmapIndex[last.matchers[1].Name][last.matchers[1].Value]


\* the references of the calls made whose labels hold the pair (n, v)
RefsOfPair(log, n, v) ==
    {c.ref : c \in {d \in log : \E j \in DOMAIN d.lbls : d.lbls[j] = Label(n, v)}}

(* C13: a reference is in the bitmap stored at (name, value) exactly when  *)
(* an AddSeries call made with that reference had the pair in its labels,  *)
(* and no stored bitmap is empty; checked wherever the caller is between   *)
(* calls.                                                                  *)
C13_Membership ==
    last = Ready =>
    /\ \A n \in DOMAIN bitmapIndex : \A v \in DOMAIN bitmapIndex[n] :
          /\ bitmapIndex[n][v] # {}
          /\ bitmapIndex[n][v] = RefsOfPair(calls, n, v)
    /\ \A c \in calls : \A j \in DOMAIN c.lbls :
          /\ c.lbls[j].Name \in DOMAIN bitmapIndex
          /\ c.lbls[j].Value \in DOMAIN bitmapIndex[c.lbls[j].Name]
          /\ c.ref \in bitmapIndex[c.lbls[j].Name][c.lbls[j].Value]

\* two references were added, one name has two values, and the bitmaps of
\* two pairs differ
C13_Witness ==
    /\ Cardinality({c.ref : c \in calls}) = 2
    /\ \E n \in DOMAIN bitmapIndex :
          /\ Cardinality(DOMAIN bitmapIndex[n]) = 2
          /\ \E v, w \in DOMAIN bitmapIndex[n] : bitmapIndex[n][v] # bitmapIndex[n][w]

\* the label sets of the calls made whose labels hold the pair (n, v)
LabelSetsOfPair(log, n, v) ==
    {c.lbls : c \in {d \in log : \E j \in DOMAIN d.lbls : d.lbls[j] = Label(n, v)}}

\* a new sketch given the identity hash of each of the label sets
RECURSIVE SketchOf(_)
SketchOf(ls) ==
    IF ls = {} THEN NewSketch
    ELSE LET l == CHOOSE l \in ls : TRUE
         IN  SketchAdd(SketchOf(ls \ {l}), PutUint64(LabelsHash(l)))

(* C14: the sketch stored at (name, value) holds the identity hashes of    *)
(* the label sets ingested with that pair and nothing else, whatever the   *)
(* references and however often they were ingested; the sketch index has   *)
(* the pairs ingested and no others.                                       *)
C14_LabelSetOnly ==
    last = Ready =>
    /\ \A n \in DOMAIN hmhIndex : \A v \in DOMAIN hmhIndex[n] :
          /\ LabelSetsOfPair(calls, n, v) # {}
          /\ hmhIndex[n][v] = SketchOf(LabelSetsOfPair(calls, n, v))
    /\ \A c \in calls : \A j \in DOMAIN c.lbls :
          /\ c.lbls[j].Name \in DOMAIN hmhIndex
          /\ c.lbls[j].Value \in DOMAIN hmhIndex[c.lbls[j].Name]
    /\ \A c \in calls :
          (\A d \in calls : d.lbls = c.lbls)
              => hmhIndex = HmhAddSeries(NewHyperMinHashIndex, c.lbls, c.ref)

\* one label set was ingested under two references: the bitmap index holds
\* both, the sketch index is as after one ingest
C14_Witness ==
    \E c, d \in calls :
        /\ c.lbls = d.lbls /\ c.ref # d.ref
        /\ Len(c.lbls) = 2
        /\ \A j \in DOMAIN c.lbls :
              bitmapIndex[c.lbls[j].Name][c.lbls[j].Value] = {c.ref, d.ref}
        /\ hmhIndex = HmhAddSeries(NewHyperMinHashIndex, c.lbls, c.ref)

\* the observed values the table of selector bags names for a matcher
TableValues(keys, m) ==
    CASE m.Type = MatchEqual    -> keys \cap {m.Value}
      [] m.Type = MatchNotEqual -> keys \ {m.Value}
      [] m.Type = MatchRegexp   -> {v \in keys : Matches(m, v) = TRUE}
      [] m.Type = MatchNotRegexp -> {v \in keys : Matches(m, v) = FALSE}

BagSketches(index, matchers) ==
    [i \in DOMAIN matchers |-> getSketchForMatcher(index, matchers[i])]

\* the least of a non-empty set of integers
Least(S) == CHOOSE x \in S : \A y \in S : x <= y

\* the pairs i < j of the positions of S
PairsOf(S) == {p \in (DOMAIN S) \X (DOMAIN S) : p[1] < p[2]}

(* C16: for a non-empty matcher list HyperMinHashIndex.GetCardinality      *)
(* returns the least of card(S0) and the intersections of all pairs        *)
(* Si, Sj with i < j of the selector-bag sketches: card(S0) for one        *)
(* matcher, never more than card(S0), and the pairwise estimator is the    *)
(* one the public GetCardinality uses.                                     *)
C16_PairwiseMinimum ==
    (last.op = "HmhGetCardinality" /\ last.matchers # <<>>)
    => LET S == BagSketches(hmhIndex, last.matchers)
       IN  /\ last.result
                = Least({SketchCardinality(S[1])}
                        \cup {SketchIntersection(S[p[1]], S[p[2]]) : p \in PairsOf(S)})
           /\ last.result <= SketchCardinality(S[1])
           /\ Len(last.matchers) = 1 => last.result = SketchCardinality(S[1])
           /\ last.result = cardinalityUsingJacaards(hmhIndex, last.matchers)

\* three matchers: the pair of the second and third intersects in less
\* than the first sketch's cardinality and than both pairs with the first
C16_Witness ==
    /\ last.op = "HmhGetCardinality"
    /\ Len(last.matchers) = 3
    /\ LET S == BagSketches(hmhIndex, last.matchers)
       IN  /\ last.result = SketchIntersection(S[2], S[3])
           /\ last.result < SketchCardinality(S[1])
           /\ last.result < SketchIntersection(S[1], S[2])
           /\ last.result < SketchIntersection(S[1], S[3])

\* the selector bags of the matchers as exact sets of references
BagSets(index, matchers) ==
    [i \in DOMAIN matchers |-> getUnionBitmapForMatcher(index, matchers[i])]

\* the sum of f over the set S
RECURSIVE SumOf(_, _)
SumOf(f, S) ==
    IF S = {} THEN 0
    ELSE LET x == CHOOSE x \in S : TRUE
         IN  f[x] + SumOf(f, S \ {x})

\* card of the merge of the sketches at the positions T, + for an odd
\* number of positions and - for an even one
SignedCardinality(S, T) ==
    LET card == SketchCardinality(MergeAll(NewSketch, {S[i] : i \in T}))
    IN  IF Cardinality(T) % 2 = 1 THEN card ELSE 0 - card

RECURSIVE IntersectionOf(_)
IntersectionOf(bags) ==
    IF Len(bags) = 1 THEN bags[1]
    ELSE bags[1] \cap IntersectionOf(Tail(bags))

(* C17: for one or more matchers the inclusion-exclusion estimator returns *)
(* the sum, over the non-empty subsets of the matchers, of the cardinality *)
(* of the merged sketches of the subset, added for a subset of odd size    *)
(* and subtracted for one of even size; run on exact sets it returns the   *)
(* size of the intersection of the selector bags.                          *)
C17_InclusionExclusion ==
    (last.op = "InclusionExclusion" /\ last.matchers # <<>>)
    => LET S    == BagSketches(hmhIndex, last.matchers)
           T    == (SUBSET DOMAIN last.matchers) \ {{}}
           bags == BagSets(bitmapIndex, last.matchers)
       IN  /\ Cardinality(T) = Pow2(Len(last.matchers)) - 1
           /\ last.result = SumOf([t \in T |-> SignedCardinality(S, t)], T)
           /\ ExactInclusionExclusion(bags) = Cardinality(IntersectionOf(bags))

\* three matchers with bags that differ and a conjunction that is not empty
C17_Witness ==
    /\ last.op = "InclusionExclusion"
    /\ Len(last.matchers) = 3
    /\ LET bags == BagSets(bitmapIndex, last.matchers)
       IN  /\ IntersectionOf(bags) # {}
           /\ bags[1] # bags[2]
           /\ ExactInclusionExclusion(bags) = Cardinality(IntersectionOf(bags))

\* the positions of the matchers whose selector bag is the empty sketch
EmptyBags(index, matchers) ==
    {i \in DOMAIN matchers : getSketchForMatcher(index, matchers[i]) = NewSketch}

(* C18: when the selector bag of some matcher of a non-empty list is the   *)
(* empty sketch, first or later, the pairwise estimator and the            *)
(* inclusion-exclusion estimator return 0, as the bitmap index does.       *)
C18_EmptyBag ==
    (/\ last.op \in {"HmhGetCardinality", "InclusionExclusion"}
     /\ EmptyBags(hmhIndex, last.matchers) # {})
    => /\ last.result = 0
       /\ BitmapGetCardinality(bitmapIndex, last.matchers) = 0

\* the inclusion-exclusion estimator was asked for three matchers of which
\* only the last has an empty bag, the other two having different sketches
C18_Witness ==
    /\ last.op = "InclusionExclusion"
    /\ Len(last.matchers) = 3
    /\ EmptyBags(hmhIndex, last.matchers) = {3}
    /\ getSketchForMatcher(hmhIndex, last.matchers[1])
         # getSketchForMatcher(hmhIndex, last.matchers[2])

(* C19: for every store content and every non-empty list of matchers of    *)
(* the four kinds, BlockIndex.GetCardinality returns what                  *)
(* BitmapIndex.GetCardinality returns on an index fed the same series,     *)
(* NotEqual matchers included.                                             *)
C19_BlockAgreesWithBitmap ==
    (/\ last.op = "BlockGetCardinality"
     /\ last.matchers # <<>>
     /\ AllValid(last.matchers))
    => /\ ~last.panicked
       /\ last.result = BitmapGetCardinality(bitmapIndex, last.matchers)

(* C20: BlockIndex.GetCardinality with no matchers returns 0 and does not  *)
(* panic.                                                                  *)
C20_BlockEmptyMatchers ==
    (last.op = "BlockGetCardinality" /\ last.matchers = <<>>)
    => (~last.panicked /\ last.result = 0)

-----------------------------------------------------------------------------
(* The pairwise minimum of cardinalityUsingJacaards run on exact sets: the *)
(* selector bags are the bitmaps of the BitmapIndex and the intersection   *)
(* of two bags is the number of references they share.                     *)

MaxPairRef == 3
MaxPairCalls == 3

\* mutant: the references of either bag are counted
ExactIntersectionCountsEither(a, b) == Cardinality(BitmapOr(a, b))

\* sketches[i].Intersection(sketches[j]) on exact sets
ExactIntersection(a, b) == Cardinality(BitmapAnd(a, b))

\* the two nested loops of cardinalityUsingJacaards, from pair (i, j) on
RECURSIVE ExactPairLoop(_, _, _, _)
ExactPairLoop(bags, card, i, j) ==
    IF i > Len(bags) THEN card
    ELSE IF j > Len(bags) THEN ExactPairLoop(bags, card, i + 1, i + 2)
    ELSE ExactPairLoop(bags, Min(card, ExactIntersection(bags[i], bags[j])),
                       i, j + 1)

ExactPairwiseMinimum(bags) ==
    IF Len(bags) = 0 THEN 0
    ELSE ExactPairLoop(bags, Cardinality(bags[1]), 1, 2)

\* series of three labels of which each carries two
PairLabelSets ==
    { <<Label("m", "a"), Label("p", "b")>>,
      <<Label("p", "b"), Label("q", "a")>>,
      <<Label("m", "a"), Label("q", "a")>> }

PairRefs == 1..MaxPairRef

PairMatchers ==
    { Matcher(MatchEqual, "m", "a"),
      Matcher(MatchEqual, "p", "b"),
      Matcher(MatchRegexp, "q", "a|b") }

PairQueries == SeqsUpTo(PairMatchers, MaxEstimatorMatchers)

\* AddSeries on both indexes
AddPairSeries ==
    \E lbls \in PairLabelSets, ref \in PairRefs :
        /\ last = Ready
        /\ Cardinality(calls \cup {Call(lbls, ref)}) <= MaxPairCalls
        /\ UpdateFn(ref, lbls)
        /\ UNCHANGED <<store, pending, last, instances, heap>>

\* the pairwise minimum over the bitmaps of the matchers
ExactPairwiseEstimate ==
    \E matchers \in PairQueries :
        /\ last = Ready
        /\ last' = Returned("ExactPairwiseMinimum", matchers,
                            ExactPairwiseMinimum(
                                [i \in DOMAIN matchers |->
                                    getUnionBitmapForMatcher(bitmapIndex,
                                                             matchers[i])]))
        /\ UNCHANGED <<bitmapIndex, hmhIndex, stringPool, store, calls, pending,
                       instances, heap>>

NextExactPairs ==
    \/ AddPairSeries
    \/ ExactPairwiseEstimate
    \/ Continue

SpecExactPairs == Init /\ [][NextExactPairs]_vars

\* the bags of a list of matchers taken in the order o of its positions
Reordered(bags, o) == [i \in DOMAIN o |-> bags[o[i]]]

(* C21: on exact sets the pairwise minimum of a non-empty matcher list is  *)
(* never less than the exact count of the conjunction, equals it for one   *)
(* or two matchers, is the same for every order of two or more matchers,   *)
(* and exceeds the exact count only for three or more matchers.            *)
C21_ExactPairwise ==
    (last.op = "ExactPairwiseMinimum" /\ last.matchers # <<>>) =>
        LET matchers == last.matchers
            bags == BagSets(bitmapIndex, matchers)
            exact == Cardinality(IntersectionOf(bags))
        IN  /\ exact = BitmapGetCardinality(bitmapIndex, matchers)
            /\ last.result >= exact
            /\ Len(matchers) <= 2 => last.result = exact
            /\ Len(matchers) >= 2 =>
                   \A o \in Orderings(DOMAIN matchers) :
                       ExactPairwiseMinimum(Reordered(bags, o)) = last.result
            /\ last.result > exact => Len(matchers) >= 3

\* three matchers whose pairwise minimum is above the exact count
C21_Witness ==
    /\ last.op = "ExactPairwiseMinimum"
    /\ Len(last.matchers) = 3
    /\ last.result > BitmapGetCardinality(bitmapIndex, last.matchers)
    /\ \A o \in Orderings(DOMAIN last.matchers) :
           ExactPairwiseMinimum(Reordered(BagSets(bitmapIndex, last.matchers), o))
               = last.result

-----------------------------------------------------------------------------
(* Several index instances in one process.  Maps, bitmaps and sketches are *)
(* objects of a heap, held by address, so that two instances holding the   *)
(* same object is a state the model can be in; stringPool is the one       *)
(* package-level variable.                                                 *)

MaxInstances == 2
MaxInstanceCalls == 2

Variants == {"BitmapIndex", "HyperMinHashIndex"}

\* make(map[string]...)
MapObject == [kind |-> "map", entries |-> EmptyMap, value |-> {}]

\* roaring64.NewBitmap() for a BitmapIndex, hyperminhash.New() for a
\* HyperMinHashIndex
LeafObject(variant) ==
    [kind |-> variant, entries |-> EmptyMap,
     value |-> IF variant = "BitmapIndex" THEN NewBitmap ELSE NewSketch]

\* mutant: one index map for each variant, which every instance of the
\* variant holds
NewInstanceSingleton(h, insts, variant) ==
    IF \E i \in DOMAIN insts : insts[i].variant = variant
    THEN LET i == CHOOSE i \in DOMAIN insts : insts[i].variant = variant
         IN  [heap |-> h,
              instances |-> Append(insts, [variant |-> variant,
                                           index |-> insts[i].index])]
    ELSE [heap |-> Append(h, MapObject),
          instances |-> Append(insts, [variant |-> variant,
                                       index |-> Len(h) + 1])]

\* NewBitmapIndex, NewHyperMinHashIndex: the instance holds a map made for it
NewInstance(h, insts, variant) ==
    [heap |-> Append(h, MapObject),
     instances |-> Append(insts, [variant |-> variant, index |-> Len(h) + 1])]

\* x, ok := m[key]; if !ok { x = obj; m[key] = x }, on the map at address m
HeapGetOrMake(h, m, key, obj) ==
    IF key \in DOMAIN h[m].entries THEN h
    ELSE [Append(h, obj) EXCEPT ![m].entries = MapPut(@, key, Len(h) + 1)]

\* bitmap.Add(uint64(ref)), hll.Add(hashBytes)
LeafAdd(variant, value, item) ==
    IF variant = "BitmapIndex" THEN BitmapAdd(value, item)
    ELSE SketchAdd(value, item)

\* one iteration of the loop of AddSeries, on the heap and the pool
HeapAddLabel(state, inst, l, item) ==
    LET pool1    == internString(state.pool, l.Name)
        lName    == Pooled(pool1, l.Name)
        pool2    == internString(pool1, l.Value)
        lValue   == Pooled(pool2, l.Value)
        h1       == HeapGetOrMake(state.heap, inst.index, lName, MapObject)
        valueMap == h1[inst.index].entries[lName]
        h2       == HeapGetOrMake(h1, valueMap, lValue, LeafObject(inst.variant))
        leaf     == h2[valueMap].entries[lValue]
    IN  [heap |-> [h2 EXCEPT ![leaf].value = LeafAdd(inst.variant, @, item)],
         pool |-> pool2]

RECURSIVE HeapAddLabels(_, _, _, _)
HeapAddLabels(state, inst, lbls, item) ==
    IF lbls = <<>> THEN state
    ELSE HeapAddLabels(HeapAddLabel(state, inst, Head(lbls), item), inst,
                       Tail(lbls), item)

\* AddSeries of either variant: a bitmap is given the reference, a sketch
\* the bytes of the hash of the labels
HeapAddSeries(state, inst, lbls, ref) ==
    HeapAddLabels(state, inst, lbls,
                  IF inst.variant = "BitmapIndex" THEN ref
                  ELSE PutUint64(LabelsHash(lbls)))

\* the index an instance holds: name -> value -> bitmap or sketch
IndexOf(h, inst) ==
    [n \in DOMAIN h[inst.index].entries |->
        LET valueMap == h[inst.index].entries[n]
        IN  [v \in DOMAIN h[valueMap].entries |->
                h[h[valueMap].entries[v]].value]]

\* GetCardinality of either variant on the index an instance holds
VariantGetCardinality(variant, index, matchers) ==
    IF variant = "BitmapIndex" THEN BitmapGetCardinality(index, matchers)
    ELSE HmhGetCardinality(index, matchers)

InstanceGetCardinality(h, inst, matchers) ==
    VariantGetCardinality(inst.variant, IndexOf(h, inst), matchers)

\* the address of the bitmap or sketch of name n and value v
LeafAddress(h, inst, n, v) == h[h[inst.index].entries[n]].entries[v]

\* the heap after GetCardinality: what the call did to the bitmaps or
\* sketches the instance holds
HeapAfterGetCardinality(h, inst, matchers) ==
    LET index == IndexOf(h, inst)
        after == IF inst.variant = "BitmapIndex"
                 THEN BitmapIndexAfter(index, matchers)
                 ELSE HmhIndexAfter(index, matchers)
        pairs == {p \in (DOMAIN index) \X (UNION {DOMAIN index[n] : n \in DOMAIN index}) :
                     p[2] \in DOMAIN index[p[1]]}
    IN  [a \in DOMAIN h |->
            IF \E p \in pairs : LeafAddress(h, inst, p[1], p[2]) = a
            THEN LET p == CHOOSE p \in pairs : LeafAddress(h, inst, p[1], p[2]) = a
                 IN  [h[a] EXCEPT !.value = after[p[1]][p[2]]]
            ELSE h[a]]

InstanceLabelSets == LabelSets

InstanceRefs == {1}

InstanceQueries ==
    { <<Matcher(MatchEqual, "m", "a")>>,
      <<Matcher(MatchNotEqual, "p", "a")>>,
      <<Matcher(MatchRegexp, "m", "a|b"), Matcher(MatchNotEqual, "p", "a")>> }

InstanceCall(a, lbls, ref) == [instance |-> a, lbls |-> lbls, ref |-> ref]

\* the caller holding what GetCardinality on instance a returned
ReturnedBy(a, result) ==
    [op |-> "GetCardinality", result |-> result, panicked |-> FALSE,
     instance |-> a]

\* NewBitmapIndex() or NewHyperMinHashIndex()
NewIndex ==
    \E variant \in Variants :
        /\ last = Ready
        /\ Len(instances) < MaxInstances
        /\ LET made == NewInstance(heap, instances, variant)
           IN  /\ heap' = made.heap
               /\ instances' = made.instances
        /\ UNCHANGED <<bitmapIndex, hmhIndex, stringPool, store, calls, pending,
                       last>>

\* AddSeries on instance a
InstanceAddSeriesOn(a) ==
    \E lbls \in InstanceLabelSets, ref \in InstanceRefs :
        /\ last = Ready
        /\ Cardinality(calls \cup {InstanceCall(a, lbls, ref)}) <= MaxInstanceCalls
        /\ UNCHANGED <<bitmapIndex, hmhIndex, store, pending, last, instances>>
        /\ calls' = calls \cup {InstanceCall(a, lbls, ref)}
        /\ LET after == HeapAddSeries([heap |-> heap, pool |-> stringPool],
                                      instances[a], lbls, ref)
           IN  /\ heap' = after.heap
               /\ stringPool' = after.pool

InstanceAddSeries == \E a \in DOMAIN instances : InstanceAddSeriesOn(a)

\* GetCardinality on instance a
InstanceGetCardinalityOn(a) ==
    \E matchers \in InstanceQueries :
        /\ last = Ready
        /\ UNCHANGED <<bitmapIndex, hmhIndex, stringPool, store, calls, pending,
                       instances>>
        /\ last' = ReturnedBy(a, InstanceGetCardinality(heap, instances[a],
                                                        matchers))
        /\ heap' = HeapAfterGetCardinality(heap, instances[a], matchers)

InstanceQuery == \E a \in DOMAIN instances : InstanceGetCardinalityOn(a)

NextInstances ==
    \/ NewIndex
    \/ InstanceAddSeries
    \/ InstanceQuery
    \/ Continue

SpecInstances == Init /\ [][NextInstances]_vars

\* the addresses of the objects instance inst holds
Held(h, inst) ==
    LET valueMaps == {h[inst.index].entries[n] : n \in DOMAIN h[inst.index].entries}
    IN  {inst.index} \cup valueMaps
        \cup UNION {{h[m].entries[v] : v \in DOMAIN h[m].entries} : m \in valueMaps}

\* the step is an AddSeries or a GetCardinality on instance a
CallOn(a) ==
    IF last' = Ready THEN InstanceAddSeriesOn(a)
    ELSE last'.instance = a /\ InstanceGetCardinalityOn(a)

(* C22: an AddSeries or a GetCardinality on an instance leaves every other *)
(* instance as it was: the objects it holds, its inverted map and the      *)
(* result of each of its queries; of the package-level state the call      *)
(* changes at most the string pool, which keeps its entries and maps each  *)
(* string to itself.                                                       *)
C22_Isolation ==
    [][\A a \in DOMAIN instances :
          CallOn(a) =>
              /\ \A b \in (DOMAIN instances) \ {a} :
                    LET before == IndexOf(heap, instances[b])
                        after  == IndexOf(heap', instances'[b])
                    IN  /\ instances'[b] = instances[b]
                        /\ \A x \in Held(heap, instances[b]) : heap'[x] = heap[x]
                        /\ after = before
                        /\ \A q \in InstanceQueries :
                               VariantGetCardinality(instances'[b].variant, after, q)
                                   = VariantGetCardinality(instances[b].variant,
                                                           before, q)
              /\ DOMAIN stringPool \subseteq DOMAIN stringPool'
              /\ \A s \in DOMAIN stringPool : stringPool'[s] = stringPool[s]
              /\ \A s \in DOMAIN stringPool' : stringPool'[s] = s
              /\ UNCHANGED <<bitmapIndex, hmhIndex, store>>]_vars

\* two instances of one variant, both with series, whose answers differ,
\* after a call on one of them
C22_Witness ==
    /\ last.op = "GetCardinality"
    /\ last.result > 0
    /\ \E b \in (DOMAIN instances) \ {last.instance} :
          /\ instances[b].variant = instances[last.instance].variant
          /\ IndexOf(heap, instances[b]) # EmptyMap
          /\ IndexOf(heap, instances[last.instance]) # EmptyMap
          /\ \E q \in InstanceQueries :
                 InstanceGetCardinality(heap, instances[b], q)
                     # InstanceGetCardinality(heap, instances[last.instance], q)
    /\ DOMAIN stringPool # {}
=============================================================================
